---- MODULE Spec2Model ----
(***************************************************************************)
(* Model of forest's image comparison tools (forest_lib/forest/image.py:   *)
(* CachedRGBA, Toggle, Slider) and of the server hooks                     *)
(* (forest/app_hooks.py) and the Action dataclass (forest/actions.py).      *)
(*                                                                         *)
(* An RGBA image is an array of shape (n, 4): n pixels, each with a colour *)
(* and an alpha value.  It is modelled as a record [rgb, alpha] where      *)
(* alpha is the sequence image[..., -1] (length n) and rgb stands for the  *)
(* three colour channels.  The shape (n, 4) is modelled by n.              *)
(*                                                                         *)
(* A ColumnDataSource's data is a function from its keys ("image",         *)
(* "_alpha", "_shape") to values; assigning a key fires the "data" change  *)
(* handlers registered on the source, synchronously and in registration    *)
(* order.                                                                  *)
(***************************************************************************)
EXTENDS Integers, Sequences, FiniteSets, TLC

\* ------------------------------------------------------------------ bounds
MaxImages == 2      \* images per source
MaxPixels == 2      \* pixels per image (shapes are 1..MaxPixels)
MaxDepth == 6       \* nesting of change handlers allowed before RecursionError

Sources == {"left", "right"}
Shapes == 1..MaxPixels
AlphaValues == {0, 1}   \* transparent, opaque

Min(a, b) == IF a < b THEN a ELSE b
Max(a, b) == IF a > b THEN a ELSE b

\* An image handed over by the calling code: n pixels of one alpha value.
NewImage(n, a) == [rgb |-> n, alpha |-> [i \in 1..n |-> a]]
\* The image lists the calling code hands over: k images of one shape and alpha.
\* Every operation treats an alpha array as a whole, so lists of mixed images
\* add states without adding behaviour.
ImageLists ==
    {[i \in 1..k |-> NewImage(n, a)] :
        k \in 0..MaxImages, n \in Shapes, a \in AlphaValues}

VARIABLES
    app,        \* which tool the calling code built: "toggle" or "slider"
    data,       \* data[s]: the ColumnDataSource.data of source s
    caches,     \* the CachedRGBA objects, in construction order
    mousemove,  \* Slider.mousemove.args (left_images, right_images)
    op,         \* the last operation performed
    invoked,    \* the shape-change callbacks invoked by the last operation
    error,      \* the exception the last operation ended with, or "none"
    depth,      \* deepest nesting of change handlers in the last operation
    AUTO_SHUTDOWN,  \* forest.data.AUTO_SHUTDOWN
    running,        \* the server process has not exited
    file_groups,    \* config.file_groups
    periodic,       \* the periodic callbacks registered on the server context
    hook,           \* the last server hook run, and what it called or printed
    heap,       \* the dict objects alive: heap[id] is the content of dict id
    acts,       \* the Action instances alive: kind, and the ids of payload and meta
    last        \* the last Action operation and the dict to_dict returned

imageVars == <<app, data, caches, mousemove, op, invoked, error, depth>>
hookVars == <<AUTO_SHUTDOWN, running, file_groups, periodic, hook>>
actionVars == <<heap, acts, last>>
vars == <<imageVars, hookVars, actionVars>>

\* ------------------------------------------------------- helper functions
\* get_shapes: [image.shape for image in source.data["image"]]
get_shapes(d) == [i \in 1..Len(d["image"]) |-> Len(d["image"][i].alpha)]

\* get_images / get_alpha: [np.copy(rgba[..., -1]) for rgba in images]
get_images(d) == d["image"]
get_alpha(d) == [i \in 1..Len(get_images(d)) |-> get_images(d)[i].alpha]

\* dict item assignment d[k] = v
SetItem(d, k, v) == [x \in DOMAIN d \cup {k} |-> IF x = k THEN v ELSE d[x]]

\* The program state threaded through a handler.
World == [data |-> data, caches |-> caches, mousemove |-> mousemove,
          invoked |-> <<>>, error |-> "none", depth |-> 0]

\* Slider.left_images / Slider.right_images: the sources in Slider.images
left_images == "left"
right_images == "right"

\* Slider.notify_client_side
notify_client_side(w) ==
    [w EXCEPT !.mousemove = [left_images |-> left_images,
                             right_images |-> right_images],
              !.invoked = Append(@, "notify_client_side")]

RECURSIVE run_callbacks(_, _, _)
run_callbacks(w, cbs, k) ==
    IF k > Len(cbs) \/ w.error # "none" THEN w
    ELSE run_callbacks(notify_client_side(w), cbs, k + 1)

RECURSIVE on_source_change(_, _, _), trigger(_, _, _, _)

\* source.data[key] = value: the assignment, then the "data" handlers.
setitem(w, s, key, value, fuel) ==
    IF w.error # "none" THEN w
    ELSE trigger([w EXCEPT !.data[s] = SetItem(@, key, value)], s, 1, fuel)

\* bokeh calls the handlers registered on source s in registration order.
trigger(w, s, i, fuel) ==
    IF i > Len(w.caches) \/ w.error # "none" THEN w
    ELSE IF w.caches[i].source = s
         THEN trigger(on_source_change(w, i, fuel), s, i + 1, fuel)
         ELSE trigger(w, s, i + 1, fuel)

\* on_source_change that leaves "_alpha" as it was
on_source_change_keeps_alpha(w, i, fuel) ==
    IF w.error # "none" THEN w
    ELSE IF fuel = 0 THEN [w EXCEPT !.error = "RecursionError"]
    ELSE
      LET s == w.caches[i].source
          w0 == [w EXCEPT !.depth = Max(@, MaxDepth - fuel + 1)]
          shapes == get_shapes(w0.data[s])
      IN IF w0.caches[i].shapes # shapes
         THEN LET w1 == [w0 EXCEPT !.caches[i].shapes = shapes]
                  w2 == setitem(w1, s, "_shape", get_shapes(w1.data[s]), fuel - 1)
              IN run_callbacks(w2, w2.caches[i].callbacks, 1)
         ELSE w0

\* on_source_change that assigns self.shapes after the two writes
on_source_change_shapes_last(w, i, fuel) ==
    IF w.error # "none" THEN w
    ELSE IF fuel = 0 THEN [w EXCEPT !.error = "RecursionError"]
    ELSE
      LET s == w.caches[i].source
          w0 == [w EXCEPT !.depth = Max(@, MaxDepth - fuel + 1)]
          shapes == get_shapes(w0.data[s])
      IN IF w0.caches[i].shapes # shapes
         THEN LET w1 == setitem(w0, s, "_shape", get_shapes(w0.data[s]), fuel - 1)
                  w2 == setitem(w1, s, "_alpha", get_alpha(w1.data[s]), fuel - 1)
                  w3 == IF w2.error # "none" THEN w2
                        ELSE [w2 EXCEPT !.caches[i].shapes = shapes]
              IN run_callbacks(w3, w3.caches[i].callbacks, 1)
         ELSE w0

\* on_source_change that runs the callbacks on every notification
on_source_change_always_calls(w, i, fuel) ==
    IF w.error # "none" THEN w
    ELSE IF fuel = 0 THEN [w EXCEPT !.error = "RecursionError"]
    ELSE
      LET s == w.caches[i].source
          w0 == [w EXCEPT !.depth = Max(@, MaxDepth - fuel + 1)]
          shapes == get_shapes(w0.data[s])
          w3 == IF w0.caches[i].shapes # shapes
                THEN LET w1 == [w0 EXCEPT !.caches[i].shapes = shapes]
                         w2 == setitem(w1, s, "_shape", get_shapes(w1.data[s]),
                                       fuel - 1)
                     IN setitem(w2, s, "_alpha", get_alpha(w2.data[s]), fuel - 1)
                ELSE w0
      IN run_callbacks(w3, w3.caches[i].callbacks, 1)

\* on_source_change that refreshes "_alpha" on every notification
on_source_change_always_refreshes(w, i, fuel) ==
    IF w.error # "none" THEN w
    ELSE IF fuel = 0 THEN [w EXCEPT !.error = "RecursionError"]
    ELSE
      LET s == w.caches[i].source
          w0 == [w EXCEPT !.depth = Max(@, MaxDepth - fuel + 1)]
          shapes == get_shapes(w0.data[s])
      IN IF w0.caches[i].shapes # shapes
         THEN LET w1 == [w0 EXCEPT !.caches[i].shapes = shapes]
                  w2 == setitem(w1, s, "_shape", get_shapes(w1.data[s]), fuel - 1)
                  w3 == setitem(w2, s, "_alpha", get_alpha(w2.data[s]), fuel - 1)
              IN run_callbacks(w3, w3.caches[i].callbacks, 1)
         ELSE setitem(w0, s, "_alpha", get_alpha(w0.data[s]), fuel - 1)

\* on_source_change that leaves "_shape" as it was
on_source_change_keeps_shape(w, i, fuel) ==
    IF w.error # "none" THEN w
    ELSE IF fuel = 0 THEN [w EXCEPT !.error = "RecursionError"]
    ELSE
      LET s == w.caches[i].source
          w0 == [w EXCEPT !.depth = Max(@, MaxDepth - fuel + 1)]
          shapes == get_shapes(w0.data[s])
      IN IF w0.caches[i].shapes # shapes
         THEN LET w1 == [w0 EXCEPT !.caches[i].shapes = shapes]
                  w3 == setitem(w1, s, "_alpha", get_alpha(w1.data[s]), fuel - 1)
              IN run_callbacks(w3, w3.caches[i].callbacks, 1)
         ELSE w0

\* CachedRGBA.on_source_change of cache i
on_source_change(w, i, fuel) ==
    IF w.error # "none" THEN w
    ELSE IF fuel = 0 THEN [w EXCEPT !.error = "RecursionError"]
    ELSE
      LET s == w.caches[i].source
          w0 == [w EXCEPT !.depth = Max(@, MaxDepth - fuel + 1)]
          shapes == get_shapes(w0.data[s])
      IN IF w0.caches[i].shapes # shapes
         THEN LET w1 == [w0 EXCEPT !.caches[i].shapes = shapes]
                  w2 == setitem(w1, s, "_shape", get_shapes(w1.data[s]), fuel - 1)
                  w3 == setitem(w2, s, "_alpha", get_alpha(w2.data[s]), fuel - 1)
              IN run_callbacks(w3, w3.caches[i].callbacks, 1)
         ELSE w0

\* CachedRGBA.__init__(source), followed by on_shape_change for each of cbs
CachedRGBA(w, s, cbs) ==
    LET w1 == IF "_alpha" \notin DOMAIN w.data[s]
              THEN setitem(w, s, "_alpha", get_alpha(w.data[s]), MaxDepth)
              ELSE w
        shapes == get_shapes(w1.data[s])
        w2 == IF "_shape" \notin DOMAIN w1.data[s]
              THEN setitem(w1, s, "_shape", shapes, MaxDepth)
              ELSE w1
    IN [w2 EXCEPT !.caches = Append(@, [source |-> s, shapes |-> shapes,
                                        callbacks |-> cbs])]

\* Toggle.__init__(left_images, right_images)
Toggle(w) == CachedRGBA(CachedRGBA(w, "left", <<>>), "left", <<>>)

\* Slider.__init__ that registers notify_client_side on the left cache twice
Slider_registers_left_twice(w) ==
    LET w1 == CachedRGBA(w, "left", <<"notify_client_side", "notify_client_side">>)
        w2 == CachedRGBA(w1, "right", <<>>)
    IN [w2 EXCEPT !.mousemove = [left_images |-> left_images,
                                 right_images |-> right_images]]

\* Slider.__init__(left_images, right_images)
Slider(w) ==
    LET w1 == CachedRGBA(w, "left", <<"notify_client_side">>)
        w2 == CachedRGBA(w1, "right", <<"notify_client_side">>)
    IN [w2 EXCEPT !.mousemove = [left_images |-> left_images,
                                 right_images |-> right_images]]

\* image[..., -1] = alpha, with numpy's broadcasting of a one-element array
Fits(image, alpha) == Len(alpha) = Len(image.alpha) \/ Len(alpha) = 1
SetAlpha(image, alpha) ==
    [image EXCEPT !.alpha = [p \in 1..Len(image.alpha) |->
                                IF Len(alpha) = 1 THEN alpha[1] ELSE alpha[p]]]

\* Toggle.show(source)
show(w, s) ==
    IF w.error # "none" THEN w
    ELSE IF "_alpha" \notin DOMAIN w.data[s]
    THEN setitem(w, s, "_alpha", get_alpha(w.data[s]), MaxDepth)
    ELSE
      LET images == w.data[s]["image"]
          alphas == w.data[s]["_alpha"]
          n == Min(Len(images), Len(alphas))
          bad == {k \in 1..n : ~Fits(images[k], alphas[k])}
          stop == IF bad = {} THEN n + 1
                  ELSE CHOOSE k \in bad : \A j \in bad : k <= j
          done == [k \in 1..Len(images) |->
                     IF k < stop /\ k <= n THEN SetAlpha(images[k], alphas[k])
                     ELSE images[k]]
          w1 == [w EXCEPT !.data[s]["image"] = done]
      IN IF bad # {} THEN [w1 EXCEPT !.error = "ValueError"]
         ELSE setitem(w1, s, "image", done, MaxDepth)

\* hide that caches the alpha only after zeroing it
hide_caches_zeroed(w, s) ==
    IF w.error # "none" THEN w
    ELSE
      LET images == w.data[s]["image"]
          zeroed == [k \in 1..Len(images) |->
                       [images[k] EXCEPT !.alpha = [p \in 1..Len(@) |-> 0]]]
          w1 == [w EXCEPT !.data[s]["image"] = zeroed]
          w2 == IF "_alpha" \notin DOMAIN w1.data[s]
                THEN setitem(w1, s, "_alpha", get_alpha(w1.data[s]), MaxDepth)
                ELSE w1
      IN setitem(w2, s, "image", zeroed, MaxDepth)

\* hide that zeroes every channel: image[...] = 0
hide_zeroes_rgba(w, s) ==
    IF w.error # "none" THEN w
    ELSE
      LET w1 == IF "_alpha" \notin DOMAIN w.data[s]
                THEN setitem(w, s, "_alpha", get_alpha(w.data[s]), MaxDepth)
                ELSE w
          images == w1.data[s]["image"]
          zeroed == [k \in 1..Len(images) |->
                       [rgb |-> 0, alpha |-> [p \in 1..Len(images[k].alpha) |-> 0]]]
      IN setitem(w1, s, "image", zeroed, MaxDepth)

\* Toggle.hide(source)
hide(w, s) ==
    IF w.error # "none" THEN w
    ELSE
      LET w1 == IF "_alpha" \notin DOMAIN w.data[s]
                THEN setitem(w, s, "_alpha", get_alpha(w.data[s]), MaxDepth)
                ELSE w
          images == w1.data[s]["image"]
          zeroed == [k \in 1..Len(images) |->
                       [images[k] EXCEPT !.alpha = [p \in 1..Len(@) |-> 0]]]
      IN setitem(w1, s, "image", zeroed, MaxDepth)

\* Toggle.show_left / Toggle.show_right
show_left(w) == hide(show(w, "left"), "right")
\* show_right that hides the right images again instead of the left ones
show_right_hides_right(w) == hide(show(w, "right"), "right")
show_right(w) == hide(show(w, "right"), "left")

\* ------------------------------------------------------------ server hooks
MaxGroups == 3      \* configured file groups
GroupNames == {"a", "b"}
FileGroups == UNION {[1..k -> GroupNames] : k \in 0..MaxGroups}

\* interval_ms as on_server_loaded last assigns it
interval_ms == 60 * 1000

\* DatabaseCallback(file_groups)
DatabaseCallback(groups) == [file_groups |-> groups]

\* DatabaseCallback.__call__: the callback afterwards, and the groups printed
RECURSIVE visit(_, _, _)
visit(groups, k, printed) ==
    IF k > Len(groups) THEN printed
    ELSE visit(groups, k + 1, Append(printed, groups[k]))
DatabaseCallback_call(cb) ==
    [self |-> cb, printed |-> visit(cb.file_groups, 1, <<>>)]

\* on_server_loaded that keeps the 15 minute interval
on_server_loaded_15_minutes(context, config) ==
    [calls |-> <<"data.on_server_loaded", "parse_args", "configure",
                 "add_periodic_callback">>,
     context |-> Append(context, [callback |-> DatabaseCallback(config),
                                  period |-> 15 * 60 * 1000])]

\* on_server_loaded(server_context): the calls made, and the context afterwards
on_server_loaded(context, config) ==
    LET callback == DatabaseCallback(config)
    IN [calls |-> <<"data.on_server_loaded", "parse_args", "configure",
                    "add_periodic_callback">>,
        context |-> Append(context, [callback |-> callback,
                                     period |-> interval_ms])]

\* on_session_destroyed that exits whatever the flag says
on_session_destroyed_always_exits(auto_shutdown) == TRUE

\* on_session_destroyed(session_context): TRUE when sys.exit is called
on_session_destroyed(auto_shutdown) == auto_shutdown

\* ------------------------------------------------------------------ actions
MaxActions == 2     \* Action instances alive
MaxDicts == 6       \* dict objects alive

Kinds == {"BOKEH_HTML_LOADED", "SET_VALUE"}
Keys == {"value"}
\* What a payload or meta dict holds under a key: a string, a plain dict (the
\* dict {"kind": v, "payload": {}, "meta": {}}), or an Action(v) instance.
Str(v) == [type |-> "str", v |-> v]
Dict(v) == [type |-> "dict", v |-> v]
Inst(v) == [type |-> "Action", v |-> v]
Values == {Str("x"), Dict("SET_VALUE"), Inst("SET_VALUE")}
Contents == UNION {[K -> Values] : K \in SUBSET Keys}
Empty == [k \in {} |-> Str("x")]

None == 0
Objects == [heap |-> heap, acts |-> acts]

\* A new dict object; its id is the heap's new length.
NewDict(h, content) == Append(h, content)

\* Action.__init__ that takes one shared dict when payload and meta are left out
Action_shares_default(o, kind, payload, meta) ==
    LET h1 == IF (payload = None \/ meta = None) /\ o.heap = <<>>
              THEN NewDict(o.heap, Empty) ELSE o.heap
        p == IF payload = None THEN 1 ELSE payload
        m == IF meta = None THEN 1 ELSE meta
    IN [heap |-> h1,
        acts |-> Append(o.acts, [kind |-> kind, payload |-> p, meta |-> m])]

\* Action(kind, payload, meta): the dataclass __init__; a field left out (None)
\* is filled by its default_factory, dict.
Action(o, kind, payload, meta) ==
    LET h1 == IF payload = None THEN NewDict(o.heap, Empty) ELSE o.heap
        p == IF payload = None THEN Len(h1) ELSE payload
        h2 == IF meta = None THEN NewDict(h1, Empty) ELSE h1
        m == IF meta = None THEN Len(h2) ELSE meta
    IN [heap |-> h2,
        acts |-> Append(o.acts, [kind |-> kind, payload |-> p, meta |-> m])]

\* dataclasses.asdict on a value: a dataclass instance becomes a dict, anything
\* else is copied.
asdict_inner(value) == IF value.type = "Action" THEN Dict(value.v) ELSE value
asdict_dict(content) == [k \in DOMAIN content |-> asdict_inner(content[k])]

\* Action.to_dict: asdict(self); the objects afterwards and the dict returned
to_dict(o, i) ==
    LET a == o.acts[i]
        h1 == NewDict(o.heap, asdict_dict(o.heap[a.payload]))
        h2 == NewDict(h1, asdict_dict(o.heap[a.meta]))
    IN [objects |-> [o EXCEPT !.heap = h2],
        d |-> [kind |-> a.kind, payload |-> Len(h1), meta |-> Len(h2)]]

\* Action.from_dict: cls(**data)
from_dict(o, d) == Action(o, d.kind, d.payload, d.meta)

\* --------------------------------------------------------------- the machine
Commit(w, o) ==
    /\ data' = w.data
    /\ caches' = w.caches
    /\ mousemove' = w.mousemove
    /\ invoked' = w.invoked
    /\ error' = w.error
    /\ depth' = w.depth
    /\ op' = o
    /\ UNCHANGED <<app, hookVars, actionVars>>

NoArgs == [left_images |-> "none", right_images |-> "none"]

Built(a, left, right) ==
    LET w == [data |-> [s \in Sources |->
                          [k \in {"image"} |-> IF s = "left" THEN left ELSE right]],
              caches |-> <<>>, mousemove |-> NoArgs,
              invoked |-> <<>>, error |-> "none", depth |-> 0]
    IN IF a = "toggle" THEN Toggle(w) ELSE Slider(w)

ImageInit(apps, lists) ==
    \E a \in apps, left \in lists, right \in lists :
        LET w == Built(a, left, right)
        IN /\ app = a
           /\ data = w.data
           /\ caches = w.caches
           /\ mousemove = w.mousemove
           /\ invoked = w.invoked
           /\ error = w.error
           /\ depth = w.depth
           /\ op = [name |-> "init", source |-> "none"]

ActionInit ==
    /\ heap = <<>>
    /\ acts = <<>>
    /\ last = [name |-> "none", of |-> 0, d |-> [kind |-> "", payload |-> 0, meta |-> 0]]

HookInit(flags, configs) ==
    /\ AUTO_SHUTDOWN \in flags
    /\ running = TRUE
    /\ file_groups \in configs
    /\ periodic = <<>>
    /\ hook = [name |-> "start", log |-> <<>>]

Init ==
    /\ ImageInit({"toggle", "slider"}, ImageLists)
    /\ HookInit({FALSE}, {<<>>})
    /\ ActionInit

\* The calling code replaces the images of source s: source.data["image"] = images.
\* The other keys of source.data stay, and the "data" handlers run.
Replace(s, images) ==
    Commit(setitem(World, s, "image", images, MaxDepth),
           [name |-> "replace", source |-> s])

ShowLeft ==
    /\ app = "toggle"
    /\ Commit(show_left(World), [name |-> "show_left", source |-> "left"])

ShowRight ==
    /\ app = "toggle"
    /\ Commit(show_right(World), [name |-> "show_right", source |-> "right"])

Show(s) ==
    /\ app = "toggle"
    /\ Commit(show(World, s), [name |-> "show", source |-> s])

Hide(s) ==
    /\ app = "toggle"
    /\ Commit(hide(World, s), [name |-> "hide", source |-> s])

Next ==
    \/ \E s \in Sources, images \in ImageLists : Replace(s, images)
    \/ ShowLeft
    \/ ShowRight
    \/ \E s \in Sources : Show(s)
    \/ \E s \in Sources : Hide(s)

Spec == Init /\ [][Next]_vars

\* Toggle.show_left and Toggle.show_right alone, on two sources that the calling
\* code leaves as they are.
NextShow == ShowLeft \/ ShowRight

InitShow ==
    /\ ImageInit({"toggle"}, ImageLists)
    /\ HookInit({FALSE}, {<<>>})
    /\ ActionInit

SpecShow == InitShow /\ [][NextShow]_vars

\* The server hooks, as bokeh runs them: on_server_loaded once at start-up, then
\* the periodic callbacks and on_session_destroyed, until the process exits.
ServerLoaded ==
    /\ running
    /\ hook.name = "start"
    /\ LET r == on_server_loaded(periodic, file_groups)
       IN /\ periodic' = r.context
          /\ hook' = [name |-> "on_server_loaded", log |-> r.calls]
    /\ UNCHANGED <<imageVars, actionVars, AUTO_SHUTDOWN, running, file_groups>>

PeriodicCallback(i) ==
    /\ running
    /\ i \in DOMAIN periodic
    /\ LET r == DatabaseCallback_call(periodic[i].callback)
       IN /\ periodic' = [periodic EXCEPT ![i].callback = r.self]
          /\ hook' = [name |-> "DatabaseCallback", log |-> r.printed]
    /\ UNCHANGED <<imageVars, actionVars, AUTO_SHUTDOWN, running, file_groups>>

SessionDestroyed ==
    /\ running
    /\ hook.name # "start"
    /\ running' = ~on_session_destroyed(AUTO_SHUTDOWN)
    /\ hook' = [name |-> "on_session_destroyed", log |-> <<>>]
    /\ UNCHANGED <<imageVars, actionVars, AUTO_SHUTDOWN, file_groups, periodic>>

NextHooks ==
    \/ ServerLoaded
    \/ \E i \in DOMAIN periodic : PeriodicCallback(i)
    \/ SessionDestroyed

InitHooks ==
    /\ ImageInit({"toggle"}, {<<>>})
    /\ HookInit(BOOLEAN, FileGroups)
    /\ ActionInit

SpecHooks == InitHooks /\ [][NextHooks]_vars

\* The Action dataclass, as the calling code uses it.
Keep(o, name, i, d) ==
    /\ heap' = o.heap
    /\ acts' = o.acts
    /\ last' = [name |-> name, of |-> i, d |-> d]
    /\ UNCHANGED <<imageVars, hookVars>>

\* Action(kind), as html_loaded builds it
NewKind(kind) ==
    /\ Len(acts) < MaxActions
    /\ Len(heap) + 2 <= MaxDicts
    /\ Keep(Action(Objects, kind, None, None), "new_kind", Len(acts) + 1, last.d)

\* Action(kind, {...}, {...}), as set_valid_times builds it from dict displays
NewFull(kind, payload, meta) ==
    /\ Len(acts) < MaxActions
    /\ Len(heap) + 2 <= MaxDicts
    /\ LET h == NewDict(NewDict(heap, payload), meta)
       IN Keep(Action([Objects EXCEPT !.heap = h], kind, Len(h) - 1, Len(h)),
               "new_full", Len(acts) + 1, last.d)

ToDict(i) ==
    /\ i \in DOMAIN acts
    /\ Len(heap) + 2 <= MaxDicts
    /\ LET r == to_dict(Objects, i)
       IN Keep(r.objects, "to_dict", i, r.d)

\* Action.from_dict on the dict to_dict returned last
FromDict ==
    /\ last.name = "to_dict"
    /\ Len(acts) <= MaxActions
    /\ Keep(from_dict(Objects, last.d), "from_dict", last.of, last.d)

NextActions ==
    \/ \E kind \in Kinds : NewKind(kind)
    \/ \E kind \in Kinds, payload \in Contents, meta \in Contents :
           NewFull(kind, payload, meta)
    \/ \E i \in DOMAIN acts : ToDict(i)
    \/ FromDict

InitActions ==
    /\ ImageInit({"toggle"}, {<<>>})
    /\ HookInit({FALSE}, {<<>>})
    /\ ActionInit

SpecActions == InitActions /\ [][NextActions]_vars

\* ------------------------------------------------------------------- claims
\* The images of source s are as the calling code handed them over: no
\* Toggle.hide has zeroed them.
Fresh(s) == op.name = "init" \/ (op.name = "replace" /\ op.source = s)

Includes(seq, x) == \E j \in DOMAIN seq : seq[j] = x

\* C1: when a data-change notification finds the source's image shapes different
\* from a cache's last cached shapes, then once the handlers have returned the
\* cache's shapes and the source's "_shape" equal the current image shapes,
\* "_alpha" equals the current images' alpha channels and every callback
\* registered on that cache has been invoked.
C1_ShapeChangeRefreshesCache ==
    [][\A i \in DOMAIN caches :
         LET s == caches[i].source
         IN caches[i].shapes # get_shapes(data'[s]) =>
              /\ caches'[i].shapes = get_shapes(data'[s])
              /\ data'[s]["_shape"] = get_shapes(data'[s])
              /\ data'[s]["_alpha"] = get_alpha(data'[s])
              /\ \A k \in DOMAIN caches[i].callbacks :
                     Includes(invoked', caches[i].callbacks[k])]_vars

C1_Witness ==
    /\ op.name = "replace"
    /\ invoked # <<>>
    /\ Len(data[op.source]["image"]) > 0
    /\ data[op.source]["_alpha"] = get_alpha(data[op.source])

\* C2: handling a data-change notification never runs into unbounded recursion:
\* the handlers nest no deeper than one level per cache plus one, also with the
\* two caches Toggle puts on one source.
C2_NotificationTerminates ==
    /\ error # "RecursionError"
    /\ depth <= Len(caches) + 1

C2_Witness ==
    /\ app = "toggle"
    /\ op.name = "replace"
    /\ depth = 3
    /\ error = "none"

\* C3: after show_left every right image has alpha 0 at every pixel and every
\* left image's alpha equals the left source's "_alpha"; after show_right the
\* same with left and right swapped; after any sequence of show_left/show_right.
Shown(s) ==
    /\ "_alpha" \in DOMAIN data[s]
    /\ get_alpha(data[s]) = data[s]["_alpha"]
Hidden(s) ==
    \A k \in DOMAIN data[s]["image"] :
        \A p \in DOMAIN data[s]["image"][k].alpha :
            data[s]["image"][k].alpha[p] = 0
C3_ShowLeftShowRight ==
    /\ op.name = "show_left" => error = "none" /\ Shown("left") /\ Hidden("right")
    /\ op.name = "show_right" => error = "none" /\ Shown("right") /\ Hidden("left")

C3_Witness ==
    /\ op.name = "show_right"
    /\ Len(data["left"]["image"]) > 0
    /\ \E k \in DOMAIN data["right"]["image"] : data["right"]["image"][k].alpha[1] = 1
    /\ \E k \in DOMAIN data["left"]["_alpha"] : data["left"]["_alpha"][k][1] = 1

\* C4 (as claimed): hide(source), once or twice, followed by show(source) leaves
\* every image's alpha channel as it was before hide.
HideShow(s) == show(hide(World, s), s)
HideHideShow(s) == show(hide(hide(World, s), s), s)
C4_HideThenShowRestores ==
    app = "toggle" =>
        \A s \in Sources :
            Fresh(s) =>
                /\ HideShow(s).error = "none"
                /\ get_alpha(HideShow(s).data[s]) = get_alpha(data[s])
                /\ get_alpha(HideHideShow(s).data[s]) = get_alpha(data[s])

\* C5 (as claimed): with a Toggle, a change of the image shapes of either source
\* refreshes that source's "_shape" and "_alpha" to the current images.
C5_ToggleCachePerSource ==
    [][(app = "toggle" /\ op'.name = "replace"
          /\ get_shapes(data'[op'.source]) # get_shapes(data[op'.source])) =>
         LET d == data'[op'.source]
         IN /\ "_shape" \in DOMAIN d
            /\ d["_shape"] = get_shapes(d)
            /\ "_alpha" \in DOMAIN d
            /\ d["_alpha"] = get_alpha(d)]_vars

\* C6: with a Slider, a replacement of the left or right images that changes
\* their shapes runs notify_client_side, which leaves mousemove.args referring to
\* the slider's left and right images; one that keeps the shapes does not run it.
C6_SliderRepublishes ==
    [][(app = "slider" /\ op'.name = "replace") =>
         IF get_shapes(data'[op'.source]) # get_shapes(data[op'.source])
         THEN /\ Includes(invoked', "notify_client_side")
              /\ mousemove'.left_images = left_images
              /\ mousemove'.right_images = right_images
         ELSE invoked' = <<>>]_vars

C6_Witness ==
    /\ app = "slider"
    /\ op = [name |-> "replace", source |-> "right"]
    /\ invoked # <<>>
    /\ mousemove = [left_images |-> "left", right_images |-> "right"]

\* C7 (as claimed): for a source wrapped by CachedRGBA whose images no hide has
\* zeroed, "_alpha" equals the alpha channels of the current images.
C7_AlphaCacheMirrorsImages ==
    \A i \in DOMAIN caches :
        Fresh(caches[i].source) =>
            data[caches[i].source]["_alpha"] = get_alpha(data[caches[i].source])

\* C8: show on a source without "_alpha" stores the images' current alpha under
\* "_alpha" and changes no pixel of any image; hide on such a source stores the
\* alpha the images had before being zeroed.
C8_LazyCachePopulation ==
    [][/\ (op'.name = "show" /\ "_alpha" \notin DOMAIN data[op'.source]) =>
            /\ "_alpha" \in DOMAIN data'[op'.source]
            /\ data'[op'.source]["_alpha"] = get_alpha(data[op'.source])
            /\ \A t \in Sources : data'[t]["image"] = data[t]["image"]
       /\ (op'.name = "hide" /\ "_alpha" \notin DOMAIN data[op'.source]) =>
            /\ "_alpha" \in DOMAIN data'[op'.source]
            /\ data'[op'.source]["_alpha"] = get_alpha(data[op'.source])
       /\ (op'.name = "show_left" /\ "_alpha" \notin DOMAIN data["right"]) =>
            /\ "_alpha" \in DOMAIN data'["right"]
            /\ data'["right"]["_alpha"] = get_alpha(data["right"])]_vars

C8_Witness ==
    /\ op = [name |-> "hide", source |-> "right"]
    /\ Hidden("right")
    /\ \E k \in DOMAIN data["right"]["_alpha"] : data["right"]["_alpha"][k][1] = 1
    /\ Len(data["right"]["_alpha"]) = Len(data["right"]["image"])

\* C9: on_session_destroyed ends the process exactly when AUTO_SHUTDOWN is set;
\* when it is not set the hook returns and changes nothing.
C9_ExitIffAutoShutdown ==
    [][hook'.name = "on_session_destroyed" =>
         /\ running' = ~AUTO_SHUTDOWN
         /\ ~AUTO_SHUTDOWN =>
              UNCHANGED <<imageVars, actionVars, AUTO_SHUTDOWN, running,
                          file_groups, periodic>>
      ]_vars

C9_Witness ==
    /\ hook.name = "on_session_destroyed"
    /\ AUTO_SHUTDOWN
    /\ ~running

\* C10: on_server_loaded calls data.on_server_loaded first and registers exactly
\* one periodic callback, a DatabaseCallback over the configured file groups with
\* an interval of 60000 ms; each run of it visits every file group once, in
\* order, and leaves file_groups as it was.
C10_PeriodicDatabaseCallback ==
    /\ hook.name # "start" =>
         periodic = <<[callback |-> [file_groups |-> file_groups], period |-> 60000]>>
    /\ hook.name = "on_server_loaded" =>
         /\ hook.log[1] = "data.on_server_loaded"
         /\ hook.log[Len(hook.log)] = "add_periodic_callback"
    /\ hook.name = "DatabaseCallback" => hook.log = file_groups

C10_Witness ==
    /\ hook.name = "DatabaseCallback"
    /\ Len(hook.log) >= 2
    /\ hook.log[1] # hook.log[2]

\* C11: a data-change notification that finds a cache's source with the shapes
\* the cache last saw leaves the cache's shapes and the source's "_shape" and
\* "_alpha" as they were, and invokes no shape-change callback.
ShapesAsCached(i) == caches[i].shapes = get_shapes(data'[caches[i].source])
C11_EqualShapesNoOp ==
    [][/\ \A i \in DOMAIN caches :
            ShapesAsCached(i) =>
                /\ caches'[i] = caches[i]
                /\ data'[caches[i].source]["_shape"] = data[caches[i].source]["_shape"]
                /\ data'[caches[i].source]["_alpha"] = data[caches[i].source]["_alpha"]
       /\ (\A i \in DOMAIN caches : ShapesAsCached(i)) => invoked' = <<>>]_vars

C11_Witness ==
    /\ op.name = "replace"
    /\ \E i \in DOMAIN caches : caches[i].source = op.source
    /\ data[op.source]["_alpha"] # get_alpha(data[op.source])
    /\ data[op.source]["_shape"] = get_shapes(data[op.source])
    /\ invoked = <<>>

C13_LastSeenShape ==
    \A i \in DOMAIN caches :
        /\ caches[i].shapes = get_shapes(data[caches[i].source])
        /\ "_shape" \in DOMAIN data[caches[i].source]
        /\ data[caches[i].source]["_shape"] = get_shapes(data[caches[i].source])

C13_Witness ==
    /\ app = "toggle"
    /\ op = [name |-> "hide", source |-> "left"]
    /\ Len(data["left"]["image"]) = 2
    /\ data["left"]["_shape"] = get_shapes(data["left"])
    /\ caches[2].shapes = get_shapes(data["left"])

\* C14: Toggle.show and Toggle.hide change nothing but the alpha channel of the
\* images of the source they are given: colours, number of images, shapes and
\* the other source stay; no shape-change callback runs, no cache changes, and an
\* existing "_shape" or "_alpha" is not refreshed.
SameButAlpha(old, new) ==
    /\ Len(new) = Len(old)
    /\ \A k \in DOMAIN old :
          new[k].rgb = old[k].rgb /\ Len(new[k].alpha) = Len(old[k].alpha)
KeepsKey(s, key) == key \in DOMAIN data[s] => data'[s][key] = data[s][key]
C14_ShowHideChangeOnlyAlpha ==
    [][op'.name \in {"show", "hide"} =>
         /\ SameButAlpha(data[op'.source]["image"], data'[op'.source]["image"])
         /\ \A t \in Sources \ {op'.source} : data'[t] = data[t]
         /\ KeepsKey(op'.source, "_shape")
         /\ KeepsKey(op'.source, "_alpha")
         /\ invoked' = <<>>
         /\ caches' = caches]_vars

C14_Witness ==
    /\ op = [name |-> "hide", source |-> "left"]
    /\ Hidden("left")
    /\ \E k \in DOMAIN data["left"]["_alpha"] : data["left"]["_alpha"][k][1] = 1
    /\ \E k \in DOMAIN data["right"]["image"] : data["right"]["image"][k].alpha[1] = 1

\* The calling code appends an image to source s, keeping the arrays it holds:
\* source.data["image"] = source.data["image"] + [image]
append(w, s, image) ==
    setitem(w, s, "image", Append(w.data[s]["image"], image), MaxDepth)

\* C15 (as claimed): when the images of a watched source are hidden and another
\* image is then appended, the "_alpha" entries of the images that were kept are
\* still their alpha from before hide, and show restores it.
C15_CacheKeepsOriginalAlpha ==
    app = "toggle" =>
        \A i \in DOMAIN caches :
            LET s == caches[i].source
            IN (Fresh(s) /\ data[s]["_alpha"] = get_alpha(data[s])) =>
                 \A n \in Shapes, a \in AlphaValues :
                     LET w1 == append(hide(World, s), s, NewImage(n, a))
                         w2 == show(w1, s)
                     IN \A k \in DOMAIN data[s]["image"] :
                            /\ w1.data[s]["_alpha"][k] = data[s]["image"][k].alpha
                            /\ w2.data[s]["image"][k].alpha = data[s]["image"][k].alpha

\* Two Actions are equal as dataclasses: same kind, equal payload, equal meta.
ActionEq(h, a, b) ==
    a.kind = b.kind /\ h[a.payload] = h[b.payload] /\ h[a.meta] = h[b.meta]
\* Neither payload nor meta holds a dataclass instance.
Plain(h, a) ==
    /\ \A k \in DOMAIN h[a.payload] : h[a.payload][k].type # "Action"
    /\ \A k \in DOMAIN h[a.meta] : h[a.meta][k].type # "Action"
Refs(a) == {a.payload, a.meta}

====
